---- MODULE Spec2Model ----
(***************************************************************************)
(* A model of rust_genetic_optimizer: the Island (island.rs), the          *)
(* GeneticEngine and its builder (genetic_engine.rs,                       *)
(* genetic_engine_builder.rs), the WorldBuilder (world_builder.rs) and the *)
(* World with its five migration algorithms (world.rs).                    *)
(*                                                                         *)
(* Individuals are opaque u64 handles.  An Option<T> is a sequence of      *)
(* length at most one: None is <<>> and Some(x) is <<x>>.  A random draw   *)
(* is a choice among the values the draw can produce, so an operation that *)
(* draws returns the set of its possible outcomes.  A panic (unwrap on     *)
(* None, division by zero, checked overflow) ends the operation where it   *)
(* happens and is recorded in the outcome.                                 *)
(***************************************************************************)
EXTENDS Integers, Sequences, FiniteSets, TLC

VARIABLES
    phase,            \* "builder", "world", "build_failed" or "panicked"
    engine_builder,   \* the GeneticEngineBuilder
    builder,          \* the WorldBuilder
    world,            \* the World, an Option: None until build succeeds
    score,            \* the IslandEngine's score of every handle
    overflow_checks,  \* whether the build panics on integer overflow
    obs               \* what the last operation did and returned

vars == <<phase, engine_builder, builder, world, score, overflow_checks, obs>>

----------------------------------------------------------------------------
(* Bounds of the model *)

\* The handles followed: 0..MaxHandle
MaxHandle == 1
\* The builder holds at most this many islands
MaxIslands == 3
\* individuals_per_island * number of islands is at most this
MaxPopulation == 4
\* No future generation grows beyond this length
MaxFuture == 2
\* Largest distance n of Cyclical(n) and Incremental(n)
MaxDistance == 2
\* Largest individuals_per_island
MaxPerIsland == 2
\* Largest generations_between_migrations
MaxBetweenMigrations == 1
\* Largest score the evaluation capability reports
MaxScore == 1
\* Largest generations_between_migrations of the worlds whose calls are
\* counted
MaxCadence == 2
\* The calls of run_one_generation followed when calls are counted
MaxRuns == 4
\* Largest individuals_per_island of the worlds whose migrations are
\* followed one individual at a time
MaxSource == 3

Handles == 0..MaxHandle

----------------------------------------------------------------------------
(* Option, and small helpers *)

None == <<>>
Some(x) == <<x>>
is_none(o) == Len(o) = 0
is_some(o) == Len(o) = 1
unwrap(o) == o[1]

Min(a, b) == IF a < b THEN a ELSE b

Range(s) == {s[i] : i \in 1..Len(s)}

\* Vec::swap_remove(index): the last element takes the place of the one
\* taken out
VecSwapRemove(v, index) ==
    [i \in 1..(Len(v) - 1) |-> IF i = index + 1 THEN v[Len(v)] ELSE v[i]]

\* Vec::remove(index): the element at the 0-based index is taken out, the
\* rest keep their order
VecRemove(v, index) ==
    [i \in 1..(Len(v) - 1) |-> IF i <= index THEN v[i] ELSE v[i + 1]]

\* The number of positions of s holding x
RECURSIVE Count(_, _)
Count(s, x) ==
    IF Len(s) = 0 THEN 0
    ELSE (IF Head(s) = x THEN 1 ELSE 0) + Count(Tail(s), x)

SameMembers(s, t) ==
    /\ Len(s) = Len(t)
    /\ \A x \in Range(s) \cup Range(t) : Count(s, x) = Count(t, x)

----------------------------------------------------------------------------
(* IslandEngine: the evaluation capability (island_engine.rs) *)

\* score_individual: the trait's default scores every individual 0; an
\* implementation may score as it likes.  sc is the table of scores.
score_individual(sc, id) == sc[id]

\* u64::cmp
Cmp(a, b) == IF a < b THEN "Less" ELSE IF a = b THEN "Equal" ELSE "Greater"

\* sort_individuals(a, b): the default compares the two scores
engine_sort_individuals(sc, a, b) ==
    Cmp(score_individual(sc, a), score_individual(sc, b))

----------------------------------------------------------------------------
(* SelectionCurve::pick_one_index(rng, max): an index in [0, max) *)

pick_one_index(max) == 0..(max - 1)

----------------------------------------------------------------------------
(* Island (island.rs) *)

Island_new ==
    [individuals |-> <<>>, individuals_are_sorted |-> FALSE, future |-> <<>>]

clear(island) ==
    [island EXCEPT !.individuals = <<>>,
                   !.individuals_are_sorted = FALSE,
                   !.future = <<>>]

\* most_fit_individual reading the head of the vector
most_fit_individual_head(island) ==
    IF ~island.individuals_are_sorted THEN None
    ELSE IF Len(island.individuals) = 0 THEN None
    ELSE Some(island.individuals[1])

most_fit_individual(island) ==
    IF ~island.individuals_are_sorted THEN None
    ELSE IF Len(island.individuals) = 0 THEN None
    ELSE Some(island.individuals[Len(island.individuals)])

least_fit_individual(island) ==
    IF ~island.individuals_are_sorted THEN None
    ELSE IF Len(island.individuals) = 0 THEN None
    ELSE Some(island.individuals[1])

\* One step of the stable sort: x goes behind every element that does not
\* compare Greater than it
RECURSIVE StableInsert(_, _, _)
StableInsert(sc, sorted, x) ==
    IF Len(sorted) = 0 THEN <<x>>
    ELSE IF engine_sort_individuals(sc, sorted[Len(sorted)], x) = "Greater"
         THEN Append(StableInsert(sc, SubSeq(sorted, 1, Len(sorted) - 1), x),
                     sorted[Len(sorted)])
         ELSE Append(sorted, x)

\* slice::sort_by: a stable sort under the comparison
RECURSIVE SortBy(_, _)
SortBy(sc, v) ==
    IF Len(v) = 0 THEN <<>>
    ELSE StableInsert(sc, SortBy(sc, SubSeq(v, 1, Len(v) - 1)), v[Len(v)])

sort_individuals(sc, island) ==
    [island EXCEPT !.individuals = SortBy(sc, island.individuals),
                   !.individuals_are_sorted = TRUE]

len(island) == Len(island.individuals)

len_future_generation(island) == Len(island.future)

\* advance_generation leaving the sorted flag as it is
advance_generation_keeping_sorted(island) ==
    [island EXCEPT !.individuals = island.future,
                   !.future = <<>>]

\* advance_generation swapping the two generations without clearing the
\* current one first
advance_generation_without_clear(island) ==
    [island EXCEPT !.individuals = island.future,
                   !.individuals_are_sorted = FALSE,
                   !.future = island.individuals]

\* clear the current generation, then swap it with the future generation
advance_generation(island) ==
    [island EXCEPT !.individuals = island.future,
                   !.individuals_are_sorted = FALSE,
                   !.future = <<>>]

\* select_one_individual without its check of the sorted flag
select_one_individual_ignoring_sorted(island) ==
    IF Len(island.individuals) = 0 THEN {None}
    ELSE {Some(island.individuals[index + 1]) :
              index \in pick_one_index(Len(island.individuals))}

\* The Options select_one_individual can return: one per index the curve
\* can pick
select_one_individual(island) ==
    IF ~island.individuals_are_sorted THEN {None}
    ELSE IF Len(island.individuals) = 0 THEN {None}
    ELSE {Some(island.individuals[index + 1]) :
              index \in pick_one_index(Len(island.individuals))}

\* select_and_remove_one_individual returning the individual and leaving it
\* on the island
select_and_remove_one_individual_keeping(island) ==
    {[ret |-> o, island |-> island] : o \in select_one_individual(island)}

\* select_and_remove_one_individual clearing the sorted flag when it takes
\* an individual out
select_and_remove_one_individual_clearing_sorted(island) ==
    IF ~island.individuals_are_sorted THEN {[ret |-> None, island |-> island]}
    ELSE IF Len(island.individuals) = 0 THEN {[ret |-> None, island |-> island]}
    ELSE {[ret |-> Some(island.individuals[index + 1]),
           island |-> [island EXCEPT
                          !.individuals = VecRemove(island.individuals, index),
                          !.individuals_are_sorted = FALSE]] :
              index \in pick_one_index(Len(island.individuals))}

\* The outcomes of select_and_remove_one_individual: what it returns and
\* the island it leaves
select_and_remove_one_individual(island) ==
    IF ~island.individuals_are_sorted THEN {[ret |-> None, island |-> island]}
    ELSE IF Len(island.individuals) = 0 THEN {[ret |-> None, island |-> island]}
    ELSE {[ret |-> Some(island.individuals[index + 1]),
           island |-> [island EXCEPT
                          !.individuals = VecRemove(island.individuals, index)]] :
              index \in pick_one_index(Len(island.individuals))}

add_individual_to_future_generation(island, id) ==
    [island EXCEPT !.future = Append(island.future, id)]

----------------------------------------------------------------------------
(* Genetics: the representation capability (genetics.rs).  An             *)
(* implementation is the set of handles it produces; each operation        *)
(* returns a handle of its own choosing among them.                        *)

genetics_random_individual(genetics, max_points) == genetics

genetics_mutate(genetics, individual, points) == genetics

genetics_crossover(genetics, individual_a, individual_b, points) == genetics

----------------------------------------------------------------------------
(* GeneticEngineBuilder (genetic_engine_builder.rs) *)

U8Modulus == 256
U8 == 0..(U8Modulus - 1)

GeneticEngineBuilder_default ==
    [mutation_rate |-> 1, crossover_rate |-> 9,
     max_mutation_points |-> 3, max_crossover_points |-> 10,
     max_individual_points |-> 100, genetics |-> None]

GeneticEngine_new(b) ==
    [mutation_rate |-> b.mutation_rate,
     crossover_rate |-> b.crossover_rate,
     max_mutation_points |-> b.max_mutation_points,
     max_crossover_points |-> b.max_crossover_points,
     max_individual_points |-> b.max_individual_points,
     genetics |-> unwrap(b.genetics)]

\* The error build returns, "" when it returns Ok
GeneticEngineBuilder_error(b) ==
    IF is_none(b.genetics) THEN "MissingGenetics"
    ELSE IF b.max_mutation_points < 1 /\ b.mutation_rate > 0
         THEN "InvalidMutationPoints"
    ELSE IF b.max_crossover_points < 1 /\ b.crossover_rate > 0
         THEN "InvalidCrossoverPoints"
    ELSE IF b.max_individual_points = 0 THEN "InvalidIndividualPoints"
    ELSE ""

GeneticEngineBuilder_build(b) ==
    IF GeneticEngineBuilder_error(b) # ""
    THEN [err |-> GeneticEngineBuilder_error(b), engine |-> None]
    ELSE [err |-> "", engine |-> Some(GeneticEngine_new(b))]

----------------------------------------------------------------------------
(* GeneticEngine (genetic_engine.rs) *)

\* a + b on u8: an overflow panics in a build with overflow checks and
\* wraps in one without
AddU8(a, b, checks) ==
    IF a + b < U8Modulus THEN [panicked |-> FALSE, value |-> a + b]
    ELSE IF checks THEN [panicked |-> TRUE, value |-> 0]
    ELSE [panicked |-> FALSE, value |-> (a + b) % U8Modulus]

\* The values of random::<u8>() followed: the ends and the middle of u8
RandomU8 == {0, 1, 2, 127, 128, U8Modulus - 2, U8Modulus - 1}

\* random::<u8>() % n: a division by zero panics
random_zero_to_n(n) ==
    IF n = 0 THEN [panicked |-> TRUE, values |-> {}]
    ELSE [panicked |-> FALSE, values |-> {r % n : r \in RandomU8}]

rand_individual(engine) ==
    genetics_random_individual(engine.genetics, engine.max_individual_points)

NoChild == [panicked |-> FALSE, op |-> "none", pick |-> None,
            points |-> None, child |-> None]

ChildPanic == [panicked |-> TRUE, op |-> "none", pick |-> None,
               points |-> None, child |-> None]

\* The mutation branch of rand_child for one operator draw
RandChildMutate(engine, left, pick) ==
    LET draw == random_zero_to_n(engine.max_mutation_points)
    IN  IF draw.panicked THEN {ChildPanic}
        ELSE {[panicked |-> FALSE, op |-> "mutate", pick |-> Some(pick),
               points |-> Some(p + 1), child |-> Some(c)] :
                  <<p, c>> \in {<<q, d>> \in draw.values \X engine.genetics :
                                   d \in genetics_mutate(engine.genetics, left,
                                                         q + 1)}}

\* The crossover branch of rand_child for one operator draw
RandChildCrossover(engine, left, right, pick) ==
    LET draw == random_zero_to_n(engine.max_crossover_points)
    IN  IF draw.panicked THEN {ChildPanic}
        ELSE {[panicked |-> FALSE, op |-> "crossover", pick |-> Some(pick),
               points |-> Some(p + 1), child |-> Some(c)] :
                  <<p, c>> \in {<<q, d>> \in draw.values \X engine.genetics :
                                   d \in genetics_crossover(engine.genetics, left,
                                                            right, q + 1)}}

\* rand_child mutating when the operator draw is at most mutation_rate
rand_child_mutating_at_rate(engine, left, right, checks) ==
    LET sum == AddU8(engine.mutation_rate, engine.crossover_rate, checks)
        draw == random_zero_to_n(sum.value)
    IN  IF sum.panicked THEN {ChildPanic}
        ELSE IF draw.panicked THEN {ChildPanic}
        ELSE UNION {IF pick <= engine.mutation_rate
                    THEN RandChildMutate(engine, left, pick)
                    ELSE RandChildCrossover(engine, left, right, pick) :
                        pick \in draw.values}

\* The outcomes of rand_child(left, right)
rand_child(engine, left, right, checks) ==
    LET sum == AddU8(engine.mutation_rate, engine.crossover_rate, checks)
        draw == random_zero_to_n(sum.value)
    IN  IF sum.panicked THEN {ChildPanic}
        ELSE IF draw.panicked THEN {ChildPanic}
        ELSE UNION {IF pick < engine.mutation_rate
                    THEN RandChildMutate(engine, left, pick)
                    ELSE RandChildCrossover(engine, left, right, pick) :
                        pick \in draw.values}

----------------------------------------------------------------------------
(* MigrationAlgorithm: a tag and, for Cyclical and Incremental, a distance *)

Circular == [tag |-> "Circular", n |-> 0]
Cyclical(n) == [tag |-> "Cyclical", n |-> n]
Incremental(n) == [tag |-> "Incremental", n |-> n]
RandomCircular == [tag |-> "RandomCircular", n |-> 0]
CompletelyRandom == [tag |-> "CompletelyRandom", n |-> 0]

----------------------------------------------------------------------------
(* WorldBuilder (world_builder.rs).  The three selection curves only bias   *)
(* pick_one_index and are not kept.                                         *)

WorldBuilder_default ==
    [individuals_per_island |-> 100,
     elite_individuals_per_generation |-> 2,
     generations_between_migrations |-> 10,
     number_of_individuals_migrating |-> 10,
     migration_algorithm |-> Circular,
     clone_migrated_individuals |-> TRUE,
     genetic_engine |-> None,
     islands |-> <<>>]

add_island(b) == [b EXCEPT !.islands = Append(b.islands, Island_new)]

World_new(b) ==
    [individuals_per_island |-> b.individuals_per_island,
     elite_individuals_per_generation |-> b.elite_individuals_per_generation,
     generations_between_migrations |-> b.generations_between_migrations,
     number_of_individuals_migrating |-> b.number_of_individuals_migrating,
     migration_algorithm |-> b.migration_algorithm,
     clone_migrated_individuals |-> b.clone_migrated_individuals,
     genetic_engine |-> unwrap(b.genetic_engine),
     islands |-> b.islands,
     generation_count |-> 0,
     generations_remaining_before_migration |-> b.generations_between_migrations]

\* build checking for the genetic engine before the three counts
WorldBuilder_error_engine_first(b) ==
    IF is_none(b.genetic_engine) THEN "MissingGeneticEngine"
    ELSE IF b.individuals_per_island = 0 THEN "InvalidIndividualsPerIsland"
    ELSE IF b.elite_individuals_per_generation >= b.individuals_per_island
         THEN "InvalidEliteCount"
    ELSE IF b.number_of_individuals_migrating > b.individuals_per_island
         THEN "InvalidMigrationCount"
    ELSE ""

\* The error build returns, "" when it returns Ok
WorldBuilder_error(b) ==
    IF b.individuals_per_island = 0 THEN "InvalidIndividualsPerIsland"
    ELSE IF b.elite_individuals_per_generation >= b.individuals_per_island
         THEN "InvalidEliteCount"
    ELSE IF b.number_of_individuals_migrating > b.individuals_per_island
         THEN "InvalidMigrationCount"
    ELSE IF is_none(b.genetic_engine) THEN "MissingGeneticEngine"
    ELSE ""

WorldBuilder_build(b) ==
    IF WorldBuilder_error(b) # ""
    THEN [err |-> WorldBuilder_error(b), world |-> None]
    ELSE [err |-> "", world |-> Some(World_new(b))]

----------------------------------------------------------------------------
(* World (world.rs).  Islands are numbered from 0 as in the source: island  *)
(* id is w.islands[id + 1].                                                 *)

get_island(w, id) == w.islands[id + 1]

set_island(w, id, island) == [w EXCEPT !.islands[id + 1] = island]

get_number_of_islands(w) == Len(w.islands)

reset_all_islands(w) ==
    [w EXCEPT !.islands = [i \in 1..Len(w.islands) |-> clear(w.islands[i])]]

generation_count(w) == w.generation_count

\* What filling one slot of island id can add to its future generation: a
\* handle, or nothing when an unwrap or rand_child panics.  kind tells how
\* the slot was filled.
FillSlot(w, island, pick_elite, checks) ==
    IF len(island) = 0
    THEN {[panicked |-> FALSE, kind |-> "random", next |-> Some(h)] :
              h \in rand_individual(w.genetic_engine)}
    ELSE IF pick_elite
    THEN {IF is_none(elite)
          THEN [panicked |-> TRUE, kind |-> "elite", next |-> None]
          ELSE [panicked |-> FALSE, kind |-> "elite", next |-> elite] :
              elite \in select_one_individual(island)}
    ELSE UNION {
           IF is_none(left) \/ is_none(right)
           THEN {[panicked |-> TRUE, kind |-> "child", next |-> None]}
           ELSE {[panicked |-> c.panicked, kind |-> "child", next |-> c.child] :
                    c \in rand_child(w.genetic_engine, unwrap(left),
                                     unwrap(right), checks)} :
               <<left, right>> \in select_one_individual(island)
                                   \X select_one_individual(island)}

\* The while loop of fill_all_islands for one island, then its advance.
\* kinds collects how each new slot was filled.
RECURSIVE FillIsland(_, _, _, _, _)
FillIsland(w, island, elite_remaining, kinds, checks) ==
    IF ~(len_future_generation(island) < w.individuals_per_island)
    THEN {[panicked |-> FALSE, island |-> advance_generation(island),
           kinds |-> kinds]}
    ELSE LET pick_elite == elite_remaining > 0
             remaining == IF pick_elite THEN elite_remaining - 1
                          ELSE elite_remaining
         IN  UNION {
               IF slot.panicked
               THEN {[panicked |-> TRUE, island |-> island,
                      kinds |-> kinds]}
               ELSE FillIsland(w,
                        add_individual_to_future_generation(island,
                                                            unwrap(slot.next)),
                        remaining, Append(kinds, slot.kind), checks) :
                   slot \in FillSlot(w, island, pick_elite, checks)}

\* fill_all_islands from island id on.  fills collects, per island, the
\* number of individuals already staged and how each new slot was filled.
RECURSIVE FillFrom(_, _, _, _)
FillFrom(w, id, fills, checks) ==
    IF id >= Len(w.islands)
    THEN {[panicked |-> FALSE, world |-> w, fills |-> fills]}
    ELSE UNION {
           IF o.panicked
           THEN {[panicked |-> TRUE, world |-> set_island(w, id, o.island),
                  fills |-> fills]}
           ELSE FillFrom(set_island(w, id, o.island), id + 1,
                         Append(fills,
                                [staged |-> len_future_generation(get_island(w, id)),
                                 kinds |-> o.kinds]),
                         checks) :
               o \in FillIsland(w, get_island(w, id),
                                w.elite_individuals_per_generation, <<>>, checks)}

fill_all_islands(w, checks) == FillFrom(w, 0, <<>>, checks)

----------------------------------------------------------------------------
(* Migration.  A pass is threaded through a record st: the world so far,    *)
(* whether an unwrap panicked, the (source, destination) pair of every     *)
(* island handled (pairs) and of every individual migrated, with its       *)
(* handle (moves).                                                          *)

PassStart(w) == [world |-> w, panicked |-> FALSE, pairs |-> <<>>, moves |-> <<>>]

\* island_at_distance counting towards the lower ids
island_at_distance_backward(w, source_id, distance) ==
    (source_id + Len(w.islands) * distance - distance) % Len(w.islands)

island_at_distance(w, source_id, distance) ==
    (source_id + distance) % Len(w.islands)

\* Migrating one individual into the destination's current generation
migrate_one_individual_into_current_generation(st, source_island_id, destination_island_id) ==
    LET w == st.world
        source_island == get_island(w, source_island_id)
        picked ==
            IF w.clone_migrated_individuals
            THEN {[ret |-> o, island |-> source_island] :
                     o \in select_one_individual(source_island)}
            ELSE select_and_remove_one_individual(source_island)
    IN  {IF is_none(p.ret)
         THEN [st EXCEPT !.panicked = TRUE]
         ELSE LET removed == set_island(w, source_island_id, p.island)
                  migrating == unwrap(p.ret)
                  destination_island == get_island(removed, destination_island_id)
              IN  [st EXCEPT
                      !.world = set_island(removed, destination_island_id,
                                    [destination_island EXCEPT
                                        !.individuals = Append(@, migrating)]),
                      !.moves = Append(st.moves,
                                       <<source_island_id, destination_island_id,
                                         migrating>>)] :
            p \in picked}

\* The outcomes of migrating one individual
migrate_one_individual_from_island_to_island(st, source_island_id, destination_island_id) ==
    LET w == st.world
        source_island == get_island(w, source_island_id)
        picked ==
            IF w.clone_migrated_individuals
            THEN {[ret |-> o, island |-> source_island] :
                     o \in select_one_individual(source_island)}
            ELSE select_and_remove_one_individual(source_island)
    IN  {IF is_none(p.ret)
         THEN [st EXCEPT !.panicked = TRUE]
         ELSE LET removed == set_island(w, source_island_id, p.island)
                  migrating == unwrap(p.ret)
              IN  [st EXCEPT
                      !.world = set_island(removed, destination_island_id,
                                    add_individual_to_future_generation(
                                        get_island(removed, destination_island_id),
                                        migrating)),
                      !.moves = Append(st.moves,
                                       <<source_island_id, destination_island_id,
                                         migrating>>)] :
            p \in picked}

\* `for _ in 0..count`: count migrations from source to destination
RECURSIVE MigrateTimes(_, _, _, _)
MigrateTimes(st, source_island_id, destination_island_id, count) ==
    IF count = 0 \/ st.panicked THEN {st}
    ELSE UNION {MigrateTimes(next, source_island_id, destination_island_id,
                             count - 1) :
                   next \in migrate_one_individual_from_island_to_island(
                                st, source_island_id, destination_island_id)}

migrate_one_island_circular_n(st, source_island_id, n) ==
    LET destination_island_id == island_at_distance(st.world, source_island_id, n)
    IN  MigrateTimes([st EXCEPT !.pairs = Append(st.pairs,
                                    <<source_island_id, destination_island_id>>)],
                     source_island_id, destination_island_id,
                     st.world.number_of_individuals_migrating)

\* migrate_all_islands_circular_n from island source_island_id on
RECURSIVE MigrateAllFrom(_, _, _)
MigrateAllFrom(st, source_island_id, n) ==
    IF source_island_id >= Len(st.world.islands) \/ st.panicked THEN {st}
    ELSE UNION {MigrateAllFrom(next, source_island_id + 1, n) :
                   next \in migrate_one_island_circular_n(st, source_island_id, n)}

\* migrate_all_islands_circular_n leaving out island 0
migrate_all_islands_circular_n_from_second(st, n) == MigrateAllFrom(st, 1, n)

migrate_all_islands_circular_n(st, n) == MigrateAllFrom(st, 0, n)

\* The orders shuffle can leave 0..len-1 in: every permutation
random_island_order(w) ==
    {order \in [1..Len(w.islands) -> 0..(Len(w.islands) - 1)] :
        \A i, j \in 1..Len(w.islands) : i # j => order[i] # order[j]}

\* distances_to_next_island measuring to the entry after, not before
distances_to_next_island_forward(island_id) ==
    LET length == Len(island_id)
        next_source_id(i) == IF i = length THEN island_id[1]
                             ELSE island_id[i + 1]
    IN  [i \in 1..length |->
            ((next_source_id(i) + length) - island_id[i]) % length]

\* For every entry, the distance to the entry before it; for the first, to
\* the last
distances_to_next_island(island_id) ==
    LET length == Len(island_id)
        previous_source_id(i) == IF i = 1 THEN island_id[length]
                                 ELSE island_id[i - 1]
    IN  [i \in 1..length |->
            ((previous_source_id(i) + length) - island_id[i]) % length]

\* The zip loop of the RandomCircular arm from position i on
RECURSIVE MigrateInOrder(_, _, _, _)
MigrateInOrder(st, island_order, distances, i) ==
    IF i > Len(island_order) \/ st.panicked THEN {st}
    ELSE UNION {MigrateInOrder(next, island_order, distances, i + 1) :
                   next \in migrate_one_island_circular_n(st, island_order[i],
                                                          distances[i])}

\* `let mut destination = source; while source != destination { destination
\* = random_range(0..len) }`: the loop is left as soon as the two are equal
DestinationAfterLoop(source_island_id, destination_island_id, length) ==
    IF source_island_id # destination_island_id
    THEN {d \in 0..(length - 1) : ~(source_island_id # d)}
    ELSE {destination_island_id}

\* The CompletelyRandom arm for one source island: count migrants, each to
\* a destination of its own
RECURSIVE MigrateRandomTimes(_, _, _)
MigrateRandomTimes(st, source_island_id, count) ==
    IF count = 0 \/ st.panicked THEN {st}
    ELSE UNION {
           UNION {MigrateRandomTimes(next, source_island_id, count - 1) :
                     next \in migrate_one_individual_from_island_to_island(
                                  st, source_island_id, destination_island_id)} :
               destination_island_id \in
                   DestinationAfterLoop(source_island_id, source_island_id,
                                        Len(st.world.islands))}

\* The CompletelyRandom arm from island source_island_id on
RECURSIVE MigrateRandomFrom(_, _)
MigrateRandomFrom(st, source_island_id) ==
    IF source_island_id >= Len(st.world.islands) \/ st.panicked THEN {st}
    ELSE UNION {MigrateRandomFrom(next, source_island_id + 1) :
                   next \in MigrateRandomTimes(st, source_island_id,
                                st.world.number_of_individuals_migrating)}

\* The increment without the replacement of zero
NextIncrementalDistance_keeping_zero(w, n) == island_at_distance(w, 0, n + 1)

\* Increment 'n'; when it gets to zero use 1 instead
NextIncrementalDistance(w, n) ==
    LET next_n == island_at_distance(w, 0, n + 1)
    IN  IF next_n = 0 THEN 1 ELSE next_n

\* A migration pass dispatching on the algorithm however many islands there
\* are
migrate_individuals_between_islands_unguarded(w) ==
    LET st == PassStart(w)
        algorithm == w.migration_algorithm
    IN  IF Len(w.islands) = 0 THEN {st}
        ELSE IF algorithm.tag = "Circular"
        THEN migrate_all_islands_circular_n(st, 1)
        ELSE IF algorithm.tag = "Cyclical"
        THEN migrate_all_islands_circular_n(st, algorithm.n)
        ELSE IF algorithm.tag = "Incremental"
        THEN {IF done.panicked THEN done
              ELSE [done EXCEPT !.world.migration_algorithm =
                       Incremental(NextIncrementalDistance(w, algorithm.n))] :
                 done \in migrate_all_islands_circular_n(st, algorithm.n)}
        ELSE IF algorithm.tag = "RandomCircular"
        THEN UNION {MigrateInOrder(st, island_order,
                                   distances_to_next_island(island_order), 1) :
                       island_order \in random_island_order(w)}
        ELSE MigrateRandomFrom(st, 0)

\* The outcomes of one migration pass
migrate_individuals_between_islands(w) ==
    LET st == PassStart(w)
        algorithm == w.migration_algorithm
    IN  IF ~(Len(w.islands) > 1) THEN {st}
        ELSE IF algorithm.tag = "Circular"
        THEN migrate_all_islands_circular_n(st, 1)
        ELSE IF algorithm.tag = "Cyclical"
        THEN migrate_all_islands_circular_n(st, algorithm.n)
        ELSE IF algorithm.tag = "Incremental"
        THEN {IF done.panicked THEN done
              ELSE [done EXCEPT !.world.migration_algorithm =
                       Incremental(NextIncrementalDistance(w, algorithm.n))] :
                 done \in migrate_all_islands_circular_n(st, algorithm.n)}
        ELSE IF algorithm.tag = "RandomCircular"
        THEN UNION {MigrateInOrder(st, island_order,
                                   distances_to_next_island(island_order), 1) :
                       island_order \in random_island_order(w)}
        ELSE MigrateRandomFrom(st, 0)

----------------------------------------------------------------------------
(* Running a generation *)

\* Island::run_one_generation returning without the sort
island_run_one_generation_without_sort(sc, island) == island

\* Island::run_one_generation: the engine's hooks leave the island as it
\* is, then the island is sorted
island_run_one_generation(sc, island) == sort_individuals(sc, island)

\* The calls Island::run_one_generation makes, in order, each with the
\* individuals it is given, running the individuals last to first
island_run_one_generation_calls_reversed(island) ==
    <<[call |-> "pre_generation_run", individuals |-> island.individuals]>>
    \o [i \in 1..Len(island.individuals) |->
           [call |-> "run_individual",
            individuals |-> <<island.individuals[Len(island.individuals) + 1 - i]>>]]
    \o <<[call |-> "post_generation_run", individuals |-> island.individuals],
         [call |-> "sort_individuals", individuals |-> island.individuals]>>

\* The calls Island::run_one_generation makes, in order, each with the
\* individuals it is given: the engine's three hooks, then the island's own
\* sort_individuals
island_run_one_generation_calls(island) ==
    <<[call |-> "pre_generation_run", individuals |-> island.individuals]>>
    \o [i \in 1..Len(island.individuals) |->
           [call |-> "run_individual", individuals |-> <<island.individuals[i]>>]]
    \o <<[call |-> "post_generation_run", individuals |-> island.individuals],
         [call |-> "sort_individuals", individuals |-> island.individuals]>>

\* run_one_generation leaving the countdown at zero after a pass
run_one_generation_without_reset(sc, w) ==
    LET ran == [w EXCEPT !.islands =
                   [i \in 1..Len(w.islands) |->
                       island_run_one_generation(sc, w.islands[i])]]
        counted == [ran EXCEPT !.generations_remaining_before_migration = @ - 1]
    IN  IF ~(w.generations_between_migrations > 0)
        THEN {PassStart(ran) @@ [migrated |-> FALSE]}
        ELSE IF counted.generations_remaining_before_migration # 0
        THEN {PassStart(counted) @@ [migrated |-> FALSE]}
        ELSE {done @@ [migrated |-> TRUE] :
                 done \in migrate_individuals_between_islands(counted)}

\* run_one_generation counting the generation in generation_count
run_one_generation_counting(sc, w) ==
    LET ran == [w EXCEPT !.islands =
                   [i \in 1..Len(w.islands) |->
                       island_run_one_generation(sc, w.islands[i])],
                         !.generation_count = @ + 1]
        counted == [ran EXCEPT !.generations_remaining_before_migration = @ - 1]
    IN  IF ~(w.generations_between_migrations > 0)
        THEN {PassStart(ran) @@ [migrated |-> FALSE]}
        ELSE IF counted.generations_remaining_before_migration # 0
        THEN {PassStart(counted) @@ [migrated |-> FALSE]}
        ELSE {(IF done.panicked THEN done
               ELSE [done EXCEPT !.world.generations_remaining_before_migration =
                        w.generations_between_migrations])
              @@ [migrated |-> TRUE] :
                 done \in migrate_individuals_between_islands(counted)}

\* World::run_one_generation: every island runs, then the countdown to the
\* next migration
run_one_generation(sc, w) ==
    LET ran == [w EXCEPT !.islands =
                   [i \in 1..Len(w.islands) |->
                       island_run_one_generation(sc, w.islands[i])]]
        counted == [ran EXCEPT !.generations_remaining_before_migration = @ - 1]
    IN  IF ~(w.generations_between_migrations > 0)
        THEN {PassStart(ran) @@ [migrated |-> FALSE]}
        ELSE IF counted.generations_remaining_before_migration # 0
        THEN {PassStart(counted) @@ [migrated |-> FALSE]}
        ELSE {(IF done.panicked THEN done
               ELSE [done EXCEPT !.world.generations_remaining_before_migration =
                        w.generations_between_migrations])
              @@ [migrated |-> TRUE] :
                 done \in migrate_individuals_between_islands(counted)}

----------------------------------------------------------------------------
(* What the last operation did *)

Obs(op) ==
    [op |-> op, panicked |-> FALSE, err |-> "", ret |-> None,
     pairs |-> <<>>, moves |-> <<>>, fills |-> <<>>, migrated |-> FALSE,
     child |-> NoChild, calls |-> <<>>]

FutureBounded(w) ==
    \A i \in 1..Len(w.islands) : Len(w.islands[i].future) <= MaxFuture

----------------------------------------------------------------------------
(* The world's operations *)

Build ==
    /\ phase = "builder"
    /\ LET built == WorldBuilder_build(builder)
       IN  /\ world' = built.world
           /\ phase' = IF built.err = "" THEN "world" ELSE "build_failed"
           /\ obs' = [Obs("build") EXCEPT !.err = built.err]
    /\ UNCHANGED <<engine_builder, builder, score, overflow_checks>>

FillAllIslands ==
    /\ phase = "world"
    /\ \E o \in fill_all_islands(unwrap(world), overflow_checks) :
          /\ world' = Some(o.world)
          /\ phase' = IF o.panicked THEN "panicked" ELSE "world"
          /\ obs' = [Obs("fill_all_islands") EXCEPT !.panicked = o.panicked,
                                                   !.fills = o.fills]
    /\ UNCHANGED <<engine_builder, builder, score, overflow_checks>>

RunOneGeneration ==
    /\ phase = "world"
    /\ \E o \in run_one_generation(score, unwrap(world)) :
          /\ FutureBounded(o.world)
          /\ world' = Some(o.world)
          /\ phase' = IF o.panicked THEN "panicked" ELSE "world"
          /\ obs' = [Obs("run_one_generation") EXCEPT !.panicked = o.panicked,
                                                     !.pairs = o.pairs,
                                                     !.moves = o.moves,
                                                     !.migrated = o.migrated]
    /\ UNCHANGED <<engine_builder, builder, score, overflow_checks>>

MigrateIndividualsBetweenIslands ==
    /\ phase = "world"
    /\ \E o \in migrate_individuals_between_islands(unwrap(world)) :
          /\ FutureBounded(o.world)
          /\ world' = Some(o.world)
          /\ phase' = IF o.panicked THEN "panicked" ELSE "world"
          /\ obs' = [Obs("migrate_individuals_between_islands") EXCEPT
                        !.panicked = o.panicked,
                        !.pairs = o.pairs,
                        !.moves = o.moves,
                        !.migrated = TRUE]
    /\ UNCHANGED <<engine_builder, builder, score, overflow_checks>>

ResetAllIslands ==
    /\ phase = "world"
    /\ world' = Some(reset_all_islands(unwrap(world)))
    /\ obs' = Obs("reset_all_islands")
    /\ UNCHANGED <<phase, engine_builder, builder, score, overflow_checks>>

----------------------------------------------------------------------------
(* The worlds checked: every builder within the bounds, valid or not *)

MigrationAlgorithms ==
    {Circular, RandomCircular, CompletelyRandom}
    \cup {Cyclical(n) : n \in 0..MaxDistance}
    \cup {Incremental(n) : n \in 0..MaxDistance}

\* A builder with count islands added
RECURSIVE WithIslands(_, _)
WithIslands(b, count) ==
    IF count = 0 THEN b ELSE add_island(WithIslands(b, count - 1))

\* The engine builder of the worlds checked, and the engine it builds
WorldEngineBuilder ==
    [GeneticEngineBuilder_default EXCEPT
        !.mutation_rate = 1, !.crossover_rate = 1,
        !.max_mutation_points = 1, !.max_crossover_points = 1,
        !.max_individual_points = 1, !.genetics = Some(Handles)]

\* The builder with count islands and the given settings
WorldBuilderOf(count, individuals, elite, between, migrating, algorithm, clone, engine) ==
    WithIslands(
        [WorldBuilder_default EXCEPT
            !.individuals_per_island = individuals,
            !.elite_individuals_per_generation = elite,
            !.generations_between_migrations = between,
            !.number_of_individuals_migrating = migrating,
            !.migration_algorithm = algorithm,
            !.clone_migrated_individuals = clone,
            !.genetic_engine = engine], count)

WorldBuilders ==
    {WorldBuilderOf(c[1], c[2], c[3], c[4], c[5], c[6], c[7], c[8]) :
        c \in {d \in (0..MaxIslands) \X (0..MaxPerIsland) \X (0..MaxPerIsland)
                      \X (0..MaxBetweenMigrations) \X (0..(MaxPerIsland + 1))
                      \X MigrationAlgorithms \X BOOLEAN
                      \X {None, GeneticEngineBuilder_build(WorldEngineBuilder).engine} :
                  /\ d[1] * d[2] <= MaxPopulation
                  /\ d[3] <= d[2]
                  /\ d[5] <= d[2] + 1}}

Init ==
    /\ phase = "builder"
    /\ engine_builder = WorldEngineBuilder
    /\ builder \in WorldBuilders
    /\ world = None
    /\ score = [h \in Handles |-> h % (MaxScore + 1)]
    /\ overflow_checks = TRUE
    /\ obs = Obs("new")

Next ==
    \/ Build
    \/ FillAllIslands
    \/ RunOneGeneration
    \/ MigrateIndividualsBetweenIslands
    \/ ResetAllIslands

Spec == Init /\ [][Next]_vars

----------------------------------------------------------------------------
(* Migration on its own: worlds that build, without elitism, over a         *)
(* genetics of a single handle, so that an island is told by the lengths    *)
(* of its generations                                                       *)

MigrationEngineBuilder == [WorldEngineBuilder EXCEPT !.genetics = Some({0})]

MigrationWorldBuilders ==
    {WorldBuilderOf(c[1], c[2], 0, c[3], c[4], c[5], c[6],
                    GeneticEngineBuilder_build(MigrationEngineBuilder).engine) :
        c \in {d \in (0..MaxIslands) \X (1..MaxPerIsland)
                      \X (0..MaxBetweenMigrations) \X (0..MaxPerIsland)
                      \X MigrationAlgorithms \X BOOLEAN :
                  /\ d[1] * d[2] <= MaxPopulation
                  /\ d[4] <= d[2]}}

InitMigration ==
    /\ phase = "builder"
    /\ engine_builder = MigrationEngineBuilder
    /\ builder \in MigrationWorldBuilders
    /\ world = None
    /\ score = [h \in Handles |-> h % (MaxScore + 1)]
    /\ overflow_checks = TRUE
    /\ obs = Obs("new")

SpecMigration == InitMigration /\ [][Next]_vars

----------------------------------------------------------------------------
(* Properties of the world *)

W == unwrap(world)

HasWorld == phase \in {"world", "panicked"}

\* The last operation was a call of migrate_individuals_between_islands,
\* made directly or by run_one_generation, and it returned
PassReturned == phase = "world" /\ obs.migrated /\ ~obs.panicked

RECURSIVE SumLens(_)
SumLens(islands) ==
    IF Len(islands) = 0 THEN 0
    ELSE len(Head(islands)) + len_future_generation(Head(islands))
         + SumLens(Tail(islands))

\* The individuals held by all islands, current plus future generations
TotalIndividuals == SumLens(W.islands)

ConservingAlgorithms == {"Circular", "Cyclical", "Incremental", "RandomCircular"}

\* C1: after fill_all_islands returns successfully, every island's current
\* generation holds exactly individuals_per_island individuals.
C1_FillLeavesExactPopulation ==
    (phase = "world" /\ obs.op = "fill_all_islands" /\ ~obs.panicked)
    => \A i \in 1..Len(W.islands) :
          len(W.islands[i]) = W.individuals_per_island

\* C2: in a CompletelyRandom pass with at least two islands, every migrated
\* individual is delivered to an island other than its source.
C2_CompletelyRandomLeavesSource ==
    (HasWorld /\ obs.migrated
        /\ W.migration_algorithm.tag = "CompletelyRandom"
        /\ Len(W.islands) >= 2)
    => \A k \in 1..Len(obs.moves) : obs.moves[k][1] # obs.moves[k][2]

\* C3 as stated: for Circular, Cyclical, Incremental and RandomCircular, a
\* migration pass changes the total number of individuals by
\* number_of_individuals_migrating * island_count when cloning, by 0
\* otherwise.
C3_PassChangesTotal ==
    [][(PassReturned' /\ W.migration_algorithm.tag \in ConservingAlgorithms)
       => TotalIndividuals' = TotalIndividuals
             + (IF W.clone_migrated_individuals
                THEN W.number_of_individuals_migrating * Len(W.islands)
                ELSE 0)]_vars

\* C3 as amended: for these four algorithms a migration pass that returns
\* changes the total by number_of_individuals_migrating * island_count when
\* cloning and there are at least two islands, and by 0 when not cloning or
\* when there are fewer than two islands.
C3_PassChangesTotalFromTwoIslands ==
    [][(PassReturned' /\ W.migration_algorithm.tag \in ConservingAlgorithms)
       => TotalIndividuals' = TotalIndividuals
             + (IF W.clone_migrated_individuals /\ Len(W.islands) >= 2
                THEN W.number_of_individuals_migrating * Len(W.islands)
                ELSE 0)]_vars

C3_Witness ==
    /\ PassReturned
    /\ W.migration_algorithm.tag \in ConservingAlgorithms
    /\ W.clone_migrated_individuals
    /\ Len(W.islands) = 3
    /\ W.number_of_individuals_migrating = 1
    /\ Len(obs.moves) = 3

EliteSlots(kinds) == {k \in 1..Len(kinds) : kinds[k] = "elite"}

\* C5: for a prior sorted non-empty generation, a fill puts exactly
\* min(elite_individuals_per_generation, individuals_per_island) verbatim
\* copies of prior individuals into the new generation, and every other
\* newly created slot is a child of the reproduction engine.
C5_FillCopiesExactlyTheElite ==
    [][(phase' = "world" /\ obs'.op = "fill_all_islands" /\ ~obs'.panicked)
       => \A i \in 1..Len(W.islands) :
             (W.islands[i].individuals_are_sorted /\ len(W.islands[i]) > 0)
             => LET fill == obs'.fills[i]
                IN  /\ Cardinality(EliteSlots(fill.kinds))
                          = Min(W.elite_individuals_per_generation,
                                W.individuals_per_island)
                    /\ \A k \in 1..Len(fill.kinds) :
                          IF fill.kinds[k] = "elite"
                          THEN W'.islands[i].individuals[fill.staged + k]
                                  \in Range(W.islands[i].individuals)
                          ELSE fill.kinds[k] = "child"]_vars

ExpectedNextDistance(n, count) ==
    IF (n + 1) % count = 0 THEN 1 ELSE (n + 1) % count

\* C6: with at least two islands a pass under Incremental(n) stores
\* (n + 1) mod island_count, or 1 when that is 0, so the stored distance is
\* in 1..island_count-1; a pass under another algorithm leaves the stored
\* algorithm as it was.
C6_IncrementalAdvancesAndNeverStoresZero ==
    [][(PassReturned' /\ Len(W.islands) >= 2)
       => IF W.migration_algorithm.tag = "Incremental"
          THEN /\ W'.migration_algorithm
                    = Incremental(ExpectedNextDistance(W.migration_algorithm.n,
                                                       Len(W.islands)))
               /\ W'.migration_algorithm.n \in 1..(Len(W.islands) - 1)
          ELSE W'.migration_algorithm = W.migration_algorithm]_vars

C6_Witness ==
    /\ PassReturned
    /\ Len(W.islands) = 3
    /\ builder.migration_algorithm = Incremental(2)
    /\ W.migration_algorithm = Incremental(1)
    /\ Len(obs.moves) > 0

\* C7: under Incremental migration no pass migrates with an effective
\* distance of 0: no island sends its migrants to itself.
C7_IncrementalNeverMigratesToSelf ==
    (HasWorld /\ obs.migrated
        /\ builder.migration_algorithm.tag = "Incremental"
        /\ Len(W.islands) >= 2)
    => \A k \in 1..Len(obs.pairs) : obs.pairs[k][1] # obs.pairs[k][2]

\* C9: build fails and constructs no World whenever the builder holds no
\* island.
C9_BuildRejectsZeroIslands ==
    (Len(builder.islands) = 0) => is_none(world)

\* C12: after a successful build no sequence of fill_all_islands,
\* run_one_generation, migrate_individuals_between_islands and
\* reset_all_islands aborts.
C12_NoRuntimeOperationAborts ==
    HasWorld => (phase # "panicked" /\ ~obs.panicked)

\* The handles a pass delivered to island id, in the order delivered
Arrivals(moves, id) ==
    LET delivered == SelectSeq(moves, LAMBDA move : move[2] = id)
    IN  [k \in 1..Len(delivered) |-> delivered[k][3]]

\* The individuals a pass took from island id
Departures(moves, id) == Len(SelectSeq(moves, LAMBDA move : move[1] = id))

\* C18: a migrated individual is appended to the destination island's
\* future generation and never to its current generation: a pass adds
\* nothing to any current generation, and the staged migrants enter the
\* current generation, at its head, when the island's generation is
\* advanced by the next fill.
C18_MigrantsAreStagedUntilAdvance ==
    [][/\ (HasWorld' /\ obs'.migrated)
             => \A id \in 0..(Len(W.islands) - 1) :
                   LET before == get_island(W, id)
                       after == get_island(unwrap(world'), id)
                   IN  /\ after.future
                             = before.future \o Arrivals(obs'.moves, id)
                       /\ \A x \in Range(after.individuals) :
                             Count(after.individuals, x)
                                <= Count(before.individuals, x)
                       /\ len(after) = len(before)
                             - (IF W.clone_migrated_individuals THEN 0
                                ELSE Departures(obs'.moves, id))
       /\ (phase' = "world" /\ obs'.op = "fill_all_islands")
             => \A id \in 0..(Len(W.islands) - 1) :
                   LET before == get_island(W, id)
                       after == get_island(unwrap(world'), id)
                   IN  /\ len(after) >= len_future_generation(before)
                       /\ SubSeq(after.individuals, 1,
                                 len_future_generation(before)) = before.future
                       /\ after.future = <<>>]_vars

C18_Witness ==
    /\ PassReturned
    /\ ~W.clone_migrated_individuals
    /\ Len(W.islands) = 2
    /\ Len(obs.moves) = 2
    /\ len_future_generation(get_island(W, 0)) = 2
    /\ len(get_island(W, 0)) = 0

\* C25: with exactly one island, or none, migrate_individuals_between_islands
\* does nothing whatever the algorithm: it has a single outcome, in which no
\* island's current or future generation and no part of the world has
\* changed, the stored algorithm and an Incremental distance included, no
\* individual was selected and no destination drawn; a pass made by
\* run_one_generation likewise leaves the algorithm and the future
\* generations as they were and moves nobody.
C25_PassWithoutSecondIslandDoesNothing ==
    [][(HasWorld /\ Len(W.islands) <= 1)
       => /\ (obs'.op = "migrate_individuals_between_islands")
                => /\ world' = world
                   /\ phase' = "world"
                   /\ ~obs'.panicked
                   /\ obs'.pairs = <<>>
                   /\ obs'.moves = <<>>
                   /\ migrate_individuals_between_islands(W) = {PassStart(W)}
          /\ (obs'.op = "run_one_generation" /\ obs'.migrated)
                => /\ ~obs'.panicked
                   /\ obs'.pairs = <<>>
                   /\ obs'.moves = <<>>
                   /\ unwrap(world').migration_algorithm = W.migration_algorithm
                   /\ \A i \in 1..Len(W.islands) :
                         /\ unwrap(world').islands[i].future = W.islands[i].future
                         /\ SameMembers(unwrap(world').islands[i].individuals,
                                        W.islands[i].individuals)]_vars

C25_Witness ==
    /\ phase = "world"
    /\ obs.op = "migrate_individuals_between_islands"
    /\ Len(W.islands) = 1
    /\ W.migration_algorithm = Incremental(2)
    /\ W.number_of_individuals_migrating = 1
    /\ ~W.clone_migrated_individuals
    /\ get_island(W, 0).individuals_are_sorted
    /\ len(get_island(W, 0)) = 2

\* The distance a Circular or Cyclical(n) pass migrates over
PassDistance(algorithm) == IF algorithm.tag = "Circular" THEN 1 ELSE algorithm.n

\* C21: in a Circular pass, and in a Cyclical(n) pass, over N >= 2 islands,
\* every island i sends exactly number_of_individuals_migrating individuals,
\* all to island (i + 1) mod N for Circular and (i + n) mod N for
\* Cyclical(n), the sources being handled in index order; each individual
\* sent is one the destination has staged.
C21_CircularSendsToFixedDistance ==
    (PassReturned /\ W.migration_algorithm.tag \in {"Circular", "Cyclical"}
        /\ Len(W.islands) >= 2)
    => LET count == Len(W.islands)
           migrating == W.number_of_individuals_migrating
           n == PassDistance(W.migration_algorithm)
       IN  /\ obs.pairs = [i \in 1..count |-> <<i - 1, (i - 1 + n) % count>>]
           /\ Len(obs.moves) = count * migrating
           /\ \A k \in 1..Len(obs.moves) :
                 /\ obs.moves[k][1] = (k - 1) \div migrating
                 /\ obs.moves[k][2] = (obs.moves[k][1] + n) % count
                 /\ obs.moves[k][3]
                       \in Range(get_island(W, obs.moves[k][2]).future)
           /\ \A id \in 0..(count - 1) : Departures(obs.moves, id) = migrating

C21_Witness ==
    /\ PassReturned
    /\ W.migration_algorithm = Cyclical(2)
    /\ Len(W.islands) = 3
    /\ W.number_of_individuals_migrating = 1
    /\ obs.moves = <<<<0, 2, 0>>, <<1, 0, 0>>, <<2, 1, 0>>>>

----------------------------------------------------------------------------
(* One island driven through its public interface: the island reached by   *)
(* get_island_mut(0) of a world of one island                              *)

Island0 == get_island(W, 0)

IslandStep(op, island, ret) ==
    /\ world' = Some(set_island(W, 0, island))
    /\ obs' = [Obs(op) EXCEPT !.ret = ret]
    /\ UNCHANGED <<phase, engine_builder, builder, score, overflow_checks>>

IslandClear ==
    /\ phase = "world"
    /\ IslandStep("clear", clear(Island0), None)

IslandSortIndividuals ==
    /\ phase = "world"
    /\ IslandStep("sort_individuals", sort_individuals(score, Island0), None)

IslandRunOneGeneration ==
    /\ phase = "world"
    /\ world' = Some(set_island(W, 0, island_run_one_generation(score, Island0)))
    /\ obs' = [Obs("island_run_one_generation") EXCEPT
                  !.calls = island_run_one_generation_calls(Island0)]
    /\ UNCHANGED <<phase, engine_builder, builder, score, overflow_checks>>

IslandAdvanceGeneration ==
    /\ phase = "world"
    /\ IslandStep("advance_generation", advance_generation(Island0), None)

IslandAddIndividualToFutureGeneration ==
    /\ phase = "world"
    /\ len_future_generation(Island0) < MaxFuture
    /\ \E id \in Handles :
          IslandStep("add_individual_to_future_generation",
                     add_individual_to_future_generation(Island0, id), None)

IslandSelectOneIndividual ==
    /\ phase = "world"
    /\ \E o \in select_one_individual(Island0) :
          IslandStep("select_one_individual", Island0, o)

IslandSelectAndRemoveOneIndividual ==
    /\ phase = "world"
    /\ \E o \in select_and_remove_one_individual(Island0) :
          IslandStep("select_and_remove_one_individual", o.island, o.ret)

IslandMostFitIndividual ==
    /\ phase = "world"
    /\ IslandStep("most_fit_individual", Island0, most_fit_individual(Island0))

IslandLeastFitIndividual ==
    /\ phase = "world"
    /\ IslandStep("least_fit_individual", Island0, least_fit_individual(Island0))

IslandWorldBuilder ==
    add_island([WorldBuilder_default EXCEPT
                   !.genetic_engine =
                       GeneticEngineBuilder_build(WorldEngineBuilder).engine])

InitIsland ==
    /\ phase = "world"
    /\ engine_builder = WorldEngineBuilder
    /\ builder = IslandWorldBuilder
    /\ world = WorldBuilder_build(builder).world
    /\ score \in [Handles -> 0..MaxScore]
    /\ overflow_checks = TRUE
    /\ obs = Obs("new")

NextIsland ==
    \/ IslandClear
    \/ IslandSortIndividuals
    \/ IslandRunOneGeneration
    \/ IslandAdvanceGeneration
    \/ IslandAddIndividualToFutureGeneration
    \/ IslandSelectOneIndividual
    \/ IslandSelectAndRemoveOneIndividual
    \/ IslandMostFitIndividual
    \/ IslandLeastFitIndividual

SpecIsland == InitIsland /\ [][NextIsland]_vars

\* C8: most_fit_individual and least_fit_individual change nothing of the
\* island and return None whenever the island is not sorted or is empty;
\* right after sort_individuals on a population of at least one,
\* most_fit_individual returns a maximum and least_fit_individual a minimum
\* of the current generation under the comparison function.
C8_MostAndLeastFit ==
    [][(obs'.op \in {"most_fit_individual", "least_fit_individual"})
       => /\ world' = world
          /\ (~Island0.individuals_are_sorted \/ len(Island0) = 0)
                => is_none(obs'.ret)
          /\ (obs.op = "sort_individuals" /\ len(Island0) >= 1)
                => /\ is_some(obs'.ret)
                   /\ unwrap(obs'.ret) \in Range(Island0.individuals)
                   /\ \A y \in Range(Island0.individuals) :
                         IF obs'.op = "most_fit_individual"
                         THEN engine_sort_individuals(score, y, unwrap(obs'.ret))
                                  # "Greater"
                         ELSE engine_sort_individuals(score, unwrap(obs'.ret), y)
                                  # "Greater"]_vars

C8_Witness ==
    /\ obs.op = "most_fit_individual"
    /\ is_some(obs.ret)
    /\ len(Island0) = 2
    /\ \E y \in Range(Island0.individuals) :
          engine_sort_individuals(score, y, unwrap(obs.ret)) = "Less"

----------------------------------------------------------------------------
(* The genetic engine on its own: built from its builder, then asked for   *)
(* individuals and children                                                *)

Engine == unwrap(builder.genetic_engine)

GeneticEngineBuild ==
    /\ phase = "engine_builder"
    /\ LET built == GeneticEngineBuilder_build(engine_builder)
       IN  /\ builder' = [builder EXCEPT !.genetic_engine = built.engine]
           /\ phase' = IF built.err = "" THEN "engine" ELSE "build_failed"
           /\ obs' = [Obs("engine_build") EXCEPT !.err = built.err]
    /\ UNCHANGED <<engine_builder, world, score, overflow_checks>>

RandIndividual ==
    /\ phase = "engine"
    /\ \E h \in rand_individual(Engine) :
          obs' = [Obs("rand_individual") EXCEPT !.ret = Some(h)]
    /\ UNCHANGED <<phase, engine_builder, builder, world, score, overflow_checks>>

RandChild ==
    /\ phase = "engine"
    /\ \E left \in Handles, right \in Handles :
          \E c \in rand_child(Engine, left, right, overflow_checks) :
             /\ phase' = IF c.panicked THEN "panicked" ELSE "engine"
             /\ obs' = [Obs("rand_child") EXCEPT !.panicked = c.panicked,
                                                !.ret = c.child,
                                                !.child = c]
    /\ UNCHANGED <<engine_builder, builder, world, score, overflow_checks>>

RateSamples == {0, 1, U8Modulus - 1}

PointSamples == {0, 1, 2}

EngineBuilders ==
    {[GeneticEngineBuilder_default EXCEPT
         !.mutation_rate = c[1], !.crossover_rate = c[2],
         !.max_mutation_points = c[3], !.max_crossover_points = c[4],
         !.max_individual_points = c[5], !.genetics = c[6]] :
        c \in RateSamples \X RateSamples \X PointSamples \X PointSamples
              \X {0, 1} \X {None, Some(Handles)}}

InitEngine ==
    /\ phase = "engine_builder"
    /\ engine_builder \in EngineBuilders
    /\ builder = WorldBuilder_default
    /\ world = None
    /\ score = [h \in Handles |-> 0]
    /\ overflow_checks \in BOOLEAN
    /\ obs = Obs("new")

NextEngine ==
    \/ GeneticEngineBuild
    \/ RandIndividual
    \/ RandChild

SpecEngine == InitEngine /\ [][NextEngine]_vars

\* C10: a builder whose mutation_rate and crossover_rate are both zero is
\* rejected by build, so that rand_child never draws from the empty range
\* [0, 0).
C10_BuildRejectsZeroRates ==
    /\ (engine_builder.mutation_rate = 0 /\ engine_builder.crossover_rate = 0)
          => is_none(builder.genetic_engine)
    /\ obs.op = "rand_child"
          => ~(Engine.mutation_rate = 0 /\ Engine.crossover_rate = 0)

\* C22: rand_child performs a mutation of left exactly when its operator
\* draw is below mutation_rate and otherwise a crossover of left and right;
\* the point count passed to the genetics is in [1, max_mutation_points] for
\* a mutation and in [1, max_crossover_points] for a crossover; hence
\* mutation_rate = 0 always yields crossover and crossover_rate = 0 always
\* yields mutation.
C22_RandChildMutatesBelowRate ==
    (obs.op = "rand_child" /\ ~obs.panicked)
    => LET child == obs.child
       IN  /\ is_some(child.pick) /\ is_some(child.points) /\ is_some(obs.ret)
           /\ child.op \in {"mutate", "crossover"}
           /\ (child.op = "mutate") <=> (unwrap(child.pick) < Engine.mutation_rate)
           /\ (child.op = "mutate")
                 => unwrap(child.points) \in 1..Engine.max_mutation_points
           /\ (child.op = "crossover")
                 => unwrap(child.points) \in 1..Engine.max_crossover_points
           /\ (Engine.mutation_rate = 0) => child.op = "crossover"
           /\ (Engine.crossover_rate = 0) => child.op = "mutate"

C22_Witness ==
    /\ obs.op = "rand_child"
    /\ ~obs.panicked
    /\ obs.child.op = "mutate"
    /\ obs.child.points = Some(2)
    /\ obs.child.pick = Some(U8Modulus - 2)
    /\ Engine.mutation_rate = U8Modulus - 1
    /\ Engine.crossover_rate = 0
    /\ Engine.max_crossover_points = 0

\* C26: for every pair of rates the builder accepts, not both zero, pairs
\* whose sum exceeds 255 included, rand_child's operator draw lies in
\* [0, mutation_rate + crossover_rate) with the sum taken as an integer sum,
\* without wraparound and without abort, so that a mutation is possible
\* whenever mutation_rate > 0 and a crossover whenever crossover_rate > 0.
C26_OperatorDrawOverTrueSum ==
    (phase \in {"engine", "panicked"}
        /\ Engine.mutation_rate + Engine.crossover_rate > 0)
    => /\ (obs.op = "rand_child")
             => /\ ~obs.panicked
                /\ unwrap(obs.child.pick)
                      \in 0..(Engine.mutation_rate + Engine.crossover_rate - 1)
       /\ (phase = "engine" /\ Engine.mutation_rate > 0)
             => \E c \in rand_child(Engine, 0, 0, overflow_checks) :
                   c.op = "mutate"
       /\ (phase = "engine" /\ Engine.crossover_rate > 0)
             => \E c \in rand_child(Engine, 0, 0, overflow_checks) :
                   c.op = "crossover"

----------------------------------------------------------------------------
(* WorldBuilder::build on its own: every builder within the bounds, valid   *)
(* or not, is built once                                                    *)

SpecBuild == Init /\ [][Build]_vars

----------------------------------------------------------------------------
(* Generations counted.  The world is driven by direct calls of             *)
(* fill_all_islands, run_one_generation and                                 *)
(* migrate_individuals_between_islands, and by run_generations_while, whose *)
(* loop is followed one call at a time.  obs.tally counts what has been     *)
(* called since the build:                                                  *)
(*   fills, runs, passes  the calls of fill_all_islands, of                 *)
(*                        run_one_generation and the direct calls of        *)
(*                        migrate_individuals_between_islands               *)
(*   received             for every (source, destination), the individuals  *)
(*                        migrated from source to destination               *)
(*   pc                   where run_generations_while is: "idle" when it    *)
(*                        is not running, "fill", "run", "check", and       *)
(*                        "returned" once it has returned Ok                *)
(*   generations          the iterations whose run_one_generation returned  *)
(*   evaluations          the evaluations of the predicate                  *)
(*   running              what the last evaluation yielded                  *)

Tally0(w) ==
    [fills |-> 0, runs |-> 0, passes |-> 0,
     received |-> [p \in (0..(Len(w.islands) - 1)) \X (0..(Len(w.islands) - 1))
                      |-> 0],
     pc |-> "idle", generations |-> 0, evaluations |-> 0, running |-> TRUE]

\* received with the moves of one pass added
AddMoves(received, moves) ==
    [p \in DOMAIN received |->
        received[p] + Cardinality({k \in 1..Len(moves) :
                                     <<moves[k][1], moves[k][2]>> = p})]

\* while running { ... running = while_fn(self) }: where the loop goes
\* after an evaluation of the predicate
WhileAfterCheck(running) == IF running THEN "fill" ELSE "returned"

\* let mut running = true; while running: the loop is entered for a first
\* iteration without an evaluation
WhileEntry == "fill"

Tallied(o, tally) == o @@ [tally |-> tally]

\* A fill within the tally: the call made directly, or by the loop
TallyFill(pc_after) ==
    /\ phase = "world"
    /\ obs.tally.fills < MaxRuns
    /\ \E o \in fill_all_islands(W, overflow_checks) :
          /\ world' = Some(o.world)
          /\ phase' = IF o.panicked THEN "panicked" ELSE "world"
          /\ obs' = Tallied([Obs("fill_all_islands") EXCEPT
                                !.panicked = o.panicked, !.fills = o.fills],
                            [obs.tally EXCEPT !.fills = @ + 1,
                                              !.pc = IF o.panicked THEN obs.tally.pc
                                                     ELSE pc_after])
    /\ UNCHANGED <<engine_builder, builder, score, overflow_checks>>

\* A run_one_generation within the tally
TallyRun(pc_after) ==
    /\ phase = "world"
    /\ obs.tally.runs < MaxRuns
    /\ \E o \in run_one_generation(score, W) :
          /\ FutureBounded(o.world)
          /\ world' = Some(o.world)
          /\ phase' = IF o.panicked THEN "panicked" ELSE "world"
          /\ obs' = Tallied([Obs("run_one_generation") EXCEPT
                                !.panicked = o.panicked, !.pairs = o.pairs,
                                !.moves = o.moves, !.migrated = o.migrated],
                            [obs.tally EXCEPT
                                !.runs = @ + 1,
                                !.received = AddMoves(@, o.moves),
                                !.generations = IF obs.tally.pc = "run"
                                                   /\ ~o.panicked
                                                THEN @ + 1 ELSE @,
                                !.pc = IF o.panicked THEN obs.tally.pc
                                       ELSE pc_after])
    /\ UNCHANGED <<engine_builder, builder, score, overflow_checks>>

CallFillAllIslands ==
    /\ obs.tally.pc \in {"idle", "returned"}
    /\ TallyFill(obs.tally.pc)

CallRunOneGeneration ==
    /\ obs.tally.pc \in {"idle", "returned"}
    /\ TallyRun(obs.tally.pc)

CallMigrateIndividualsBetweenIslands ==
    /\ phase = "world"
    /\ obs.tally.pc \in {"idle", "returned"}
    /\ obs.tally.passes < MaxRuns
    /\ \E o \in migrate_individuals_between_islands(W) :
          /\ FutureBounded(o.world)
          /\ world' = Some(o.world)
          /\ phase' = IF o.panicked THEN "panicked" ELSE "world"
          /\ obs' = Tallied([Obs("migrate_individuals_between_islands") EXCEPT
                                !.panicked = o.panicked, !.pairs = o.pairs,
                                !.moves = o.moves, !.migrated = TRUE],
                            [obs.tally EXCEPT
                                !.passes = @ + 1,
                                !.received = AddMoves(@, o.moves)])
    /\ UNCHANGED <<engine_builder, builder, score, overflow_checks>>

\* run_generations_while is called
WhileCall ==
    /\ phase = "world"
    /\ obs.tally.pc = "idle"
    /\ obs' = Tallied(Obs("run_generations_while"),
                      [obs.tally EXCEPT !.pc = WhileEntry, !.generations = 0,
                                        !.evaluations = 0, !.running = TRUE])
    /\ UNCHANGED <<phase, engine_builder, builder, world, score, overflow_checks>>

\* self.fill_all_islands()?
WhileFill ==
    /\ obs.tally.pc = "fill"
    /\ TallyFill("run")

\* self.run_one_generation()
WhileRun ==
    /\ obs.tally.pc = "run"
    /\ TallyRun("check")

\* running = while_fn(self): the predicate reads the world and yields what
\* it likes
WhileCheck ==
    /\ phase = "world"
    /\ obs.tally.pc = "check"
    /\ \E running \in BOOLEAN :
          obs' = Tallied(Obs("while_fn"),
                         [obs.tally EXCEPT !.evaluations = @ + 1,
                                           !.running = running,
                                           !.pc = WhileAfterCheck(running)])
    /\ UNCHANGED <<phase, engine_builder, builder, world, score, overflow_checks>>

\* The end-to-end scenario: 3 islands of 5, no elite, mutation_rate 0 and
\* crossover_rate 1, Circular migration after every generation, 1 migrant,
\* no cloning
ScenarioEngineBuilder ==
    [MigrationEngineBuilder EXCEPT !.mutation_rate = 0, !.crossover_rate = 1]

ScenarioWorldBuilder ==
    WorldBuilderOf(3, 5, 0, 1, 1, Circular, FALSE,
                   GeneticEngineBuilder_build(ScenarioEngineBuilder).engine)

GenerationWorldBuilders ==
    {WorldBuilderOf(c[1], c[2], 0, c[3], c[4], c[5], c[6],
                    GeneticEngineBuilder_build(MigrationEngineBuilder).engine) :
        c \in {d \in (1..MaxIslands) \X (1..MaxPerIsland)
                      \X (0..MaxCadence) \X (0..1)
                      \X {Circular, Incremental(1)} \X BOOLEAN :
                  d[1] * d[2] <= MaxPopulation}}

InitGenerations ==
    /\ phase = "world"
    /\ \/ engine_builder = MigrationEngineBuilder
          /\ builder \in GenerationWorldBuilders
       \/ engine_builder = ScenarioEngineBuilder
          /\ builder = ScenarioWorldBuilder
    /\ world = WorldBuilder_build(builder).world
    /\ score = [h \in Handles |-> h % (MaxScore + 1)]
    /\ overflow_checks = TRUE
    /\ obs = Tallied(Obs("new"), Tally0(unwrap(WorldBuilder_build(builder).world)))

NextGenerations ==
    \/ CallFillAllIslands
    \/ CallRunOneGeneration
    \/ CallMigrateIndividualsBetweenIslands
    \/ WhileCall
    \/ WhileFill
    \/ WhileRun
    \/ WhileCheck

SpecGenerations == InitGenerations /\ [][NextGenerations]_vars

\* The scenario world after two generations: fill_all_islands then
\* run_one_generation, twice, and nothing else
ScenarioAfterTwoGenerations ==
    /\ builder = ScenarioWorldBuilder
    /\ phase = "world"
    /\ obs.op = "run_one_generation"
    /\ obs.tally.fills = 2
    /\ obs.tally.runs = 2
    /\ obs.tally.passes = 0

\* C14 as stated: in the scenario, after 2 generations the total number of
\* individuals across all islands is 15 and island 0 has received exactly 1
\* individual migrated from island 2.
C14_ScenarioReceivedOne ==
    ScenarioAfterTwoGenerations
    => /\ TotalIndividuals = 15
       /\ obs.tally.received[<<2, 0>>] = 1

\* C14 as amended: in the scenario, after 2 generations the total is 15 and
\* island 0 has received exactly 2 individuals migrated from island 2, 1 in
\* each of the two migration passes; the one of the second pass is the only
\* individual staged in island 0's future generation.
C14_ScenarioReceivedOnePerPass ==
    ScenarioAfterTwoGenerations
    => /\ TotalIndividuals = 15
       /\ obs.tally.received[<<2, 0>>] = 2
       /\ \A p \in DOMAIN obs.tally.received :
             obs.tally.received[p] = IF p[2] = (p[1] + 1) % 3 THEN 2 ELSE 0
       /\ Cardinality({k \in 1..Len(obs.moves) :
                          obs.moves[k][1] = 2 /\ obs.moves[k][2] = 0}) = 1
       /\ len_future_generation(get_island(W, 0)) = 1
       /\ len(get_island(W, 0)) = 4

C14_Witness ==
    /\ ScenarioAfterTwoGenerations
    /\ obs.tally.pc = "check"
    /\ obs.tally.generations = 2
    /\ obs.tally.evaluations = 1
    /\ obs.tally.received[<<2, 0>>] = 2

\* C15: run_one_generation runs every island's generation and only then
\* handles migration; with generations_between_migrations = N > 0 a pass is
\* performed during the k-th call iff k is a multiple of N, the countdown is
\* reset to N right after each pass and is in 1..N between calls; with N = 0
\* the countdown is never decremented and run_one_generation never migrates.
C15_MigrationEveryNthGeneration ==
    LET N == W.generations_between_migrations
        remaining == W.generations_remaining_before_migration
        k == obs.tally.runs
    IN  /\ (obs.op = "run_one_generation")
              => /\ obs.migrated <=> (N > 0 /\ k % (IF N > 0 THEN N ELSE 1) = 0)
                 /\ phase = "world"
                       => \A i \in 1..Len(W.islands) :
                             W.islands[i].individuals_are_sorted
        /\ (N > 0 /\ phase = "world")
              => /\ remaining \in 1..N
                 /\ remaining = N - (k % N)
                 /\ (obs.op = "run_one_generation" /\ obs.migrated)
                       => remaining = N
        /\ (N = 0) => remaining = 0

C15_Witness ==
    /\ phase = "world"
    /\ obs.op = "run_one_generation"
    /\ W.generations_between_migrations = 2
    /\ obs.tally.runs = 4
    /\ obs.tally.passes = 1
    /\ obs.migrated
    /\ Len(obs.moves) = 2

\* C29: no operation of World (fill_all_islands, run_one_generation,
\* run_generations_while, migrate_individuals_between_islands,
\* reset_all_islands) modifies generation_count, so generation_count()
\* returns 0 in every reachable state, however many generations have run.
C29_GenerationCountStaysZero ==
    is_some(world) => generation_count(W) = 0

C29_Witness ==
    /\ phase = "world"
    /\ obs.op = "run_one_generation"
    /\ obs.tally.pc = "check"
    /\ obs.tally.generations = 3
    /\ obs.tally.runs = 4
    /\ obs.tally.passes = 1
    /\ obs.migrated
    /\ Len(obs.moves) = 3
    /\ generation_count(W) = 0

\* C16: run_generations_while performs fill_all_islands, then
\* run_one_generation, then exactly one evaluation of the predicate per
\* iteration; it runs one full generation before the first evaluation; it
\* returns right after the first evaluation that yields false, and it ends
\* in no other way.
C16_LoopEndsOnlyWhenPredicateIsFalse ==
    [][LET before == obs.tally
           after == obs'.tally
       IN  /\ (before.pc = "fill")
                 => (obs'.op = "fill_all_islands" /\ after.pc = "run")
           /\ (before.pc = "run")
                 => (obs'.op = "run_one_generation" /\ after.pc = "check"
                     /\ after.generations = before.generations + 1)
           /\ (before.pc = "check")
                 => /\ obs'.op = "while_fn"
                    /\ after.evaluations = before.evaluations + 1
                    /\ after.evaluations = after.generations
                    /\ after.pc = IF after.running THEN "fill" ELSE "returned"
           /\ (after.pc = "returned" /\ before.pc # "returned")
                 => /\ before.pc = "check"
                    /\ ~after.running
                    /\ after.generations >= 1]_vars

\* C17: Island::run_one_generation calls the pre-generation hook once, then
\* run_individual once for each member of the current generation in
\* population order, then the post-generation hook once, and only then
\* sorts; on return the sorted flag is true, the current generation is a
\* permutation of what it was and is in order under the comparison.
C17_HooksThenSort ==
    [][(obs'.op = "island_run_one_generation")
       => LET individuals == Island0.individuals
              count == Len(individuals)
              calls == obs'.calls
              after == get_island(unwrap(world'), 0)
          IN  /\ Len(calls) = count + 3
              /\ calls[1] = [call |-> "pre_generation_run",
                             individuals |-> individuals]
              /\ \A i \in 1..count :
                    calls[i + 1] = [call |-> "run_individual",
                                    individuals |-> <<individuals[i]>>]
              /\ calls[count + 2] = [call |-> "post_generation_run",
                                     individuals |-> individuals]
              /\ calls[count + 3].call = "sort_individuals"
              /\ after.individuals_are_sorted
              /\ SameMembers(after.individuals, individuals)
              /\ \A i \in 1..(count - 1) :
                    engine_sort_individuals(score', after.individuals[i],
                                            after.individuals[i + 1]) # "Greater"
              /\ after.future = Island0.future]_vars

C17_Witness ==
    /\ obs.op = "island_run_one_generation"
    /\ Len(obs.calls) = 5
    /\ obs.calls[2].individuals # obs.calls[3].individuals
    /\ Island0.individuals = obs.calls[3].individuals \o obs.calls[2].individuals
    /\ Island0.individuals_are_sorted

----------------------------------------------------------------------------
(* One migration at a time: two islands that have been filled over the      *)
(* whole genetics and have run one generation, then single migrations from  *)
(* either island to either island, as the passes make them.  The engine     *)
(* scores every individual alike, so that a sorted island keeps the order   *)
(* it was filled in, or scores them apart.                                  *)

MigrateOneIndividual ==
    /\ phase = "world"
    /\ \E source_island_id \in 0..(Len(W.islands) - 1),
          destination_island_id \in 0..(Len(W.islands) - 1) :
          \E o \in migrate_one_individual_from_island_to_island(
                       PassStart(W), source_island_id, destination_island_id) :
             /\ FutureBounded(o.world)
             /\ world' = Some(o.world)
             /\ phase' = IF o.panicked THEN "panicked" ELSE "world"
             /\ obs' = [Obs("migrate_one_individual_from_island_to_island")
                           EXCEPT !.panicked = o.panicked,
                                  !.pairs = <<<<source_island_id,
                                                destination_island_id>>>>,
                                  !.moves = o.moves]
    /\ UNCHANGED <<engine_builder, builder, score, overflow_checks>>

\* A genetics of two handles: enough to tell an individual from its
\* neighbours
OneMigrationEngineBuilder == [WorldEngineBuilder EXCEPT !.genetics = Some({0, 1})]

OneMigrationWorldBuilders ==
    {WorldBuilderOf(2, individuals, 0, 0, 1, Circular, clone,
                    GeneticEngineBuilder_build(OneMigrationEngineBuilder).engine) :
        individuals \in 1..MaxSource, clone \in BOOLEAN}

\* The worlds a built world is in after fill_all_islands and
\* run_one_generation
FilledAndRun(sc, w) ==
    UNION {{r.world : r \in run_one_generation(sc, f.world)} :
              f \in fill_all_islands(w, TRUE)}

InitOneMigration ==
    /\ phase = "world"
    /\ engine_builder = OneMigrationEngineBuilder
    /\ builder \in OneMigrationWorldBuilders
    /\ score \in {[h \in Handles |-> 0], [h \in Handles |-> h % (MaxScore + 1)]}
    /\ world \in {Some(w) :
                     w \in FilledAndRun(score,
                                        unwrap(WorldBuilder_build(builder).world))}
    /\ overflow_checks = TRUE
    /\ obs = Obs("new")

SpecOneMigration == InitOneMigration /\ [][MigrateOneIndividual]_vars

\* C19: for a single migration of one individual, the migrated handle is
\* one that was in the source island's current generation; when
\* clone_migrated_individuals is true the source's current generation is
\* left unchanged, and when it is false it loses exactly that one occurrence
\* and keeps the relative order of the rest.
C19_MigrationTakesFromSource ==
    [][(obs'.op = "migrate_one_individual_from_island_to_island"
           /\ ~obs'.panicked)
       => LET move == obs'.moves[1]
              before == get_island(W, move[1]).individuals
              after == get_island(unwrap(world'), move[1]).individuals
          IN  /\ Len(obs'.moves) = 1
              /\ <<move[1], move[2]>> = obs'.pairs[1]
              /\ move[3] \in Range(before)
              /\ IF W.clone_migrated_individuals
                 THEN after = before
                 ELSE \E i \in 1..Len(before) :
                         /\ before[i] = move[3]
                         /\ after = SubSeq(before, 1, i - 1)
                                    \o SubSeq(before, i + 1, Len(before))]_vars

C19_Witness ==
    /\ phase = "world"
    /\ obs.op = "migrate_one_individual_from_island_to_island"
    /\ ~W.clone_migrated_individuals
    /\ obs.moves = <<<<0, 1, 0>>>>
    /\ get_island(W, 0).individuals = <<0, 1>>
    /\ get_island(W, 1).future = <<0>>
    /\ W.individuals_per_island = 3

----------------------------------------------------------------------------
(* Selection on one island, checked under SpecIsland *)

\* C20: select_one_individual and select_and_remove_one_individual return
\* empty, and change nothing, unless the island is sorted and non-empty;
\* otherwise select_one_individual returns the individual at an index of
\* the current generation and leaves the island unchanged, while
\* select_and_remove_one_individual returns it and takes it out, the current
\* generation shrinking by exactly one, so that the next selection draws its
\* index over the reduced size.
C20_SelectionNeedsSortedNonEmpty ==
    [][LET individuals == Island0.individuals
           selectable == Island0.individuals_are_sorted /\ len(Island0) > 0
           after == get_island(unwrap(world'), 0)
       IN  /\ (obs'.op = "select_one_individual")
                 => /\ world' = world
                    /\ IF selectable
                       THEN /\ is_some(obs'.ret)
                            /\ \E index \in 0..(len(Island0) - 1) :
                                  unwrap(obs'.ret) = individuals[index + 1]
                       ELSE is_none(obs'.ret)
           /\ (obs'.op = "select_and_remove_one_individual")
                 => IF selectable
                    THEN /\ is_some(obs'.ret)
                         /\ len(after) = len(Island0) - 1
                         /\ \E index \in 0..(len(Island0) - 1) :
                               /\ unwrap(obs'.ret) = individuals[index + 1]
                               /\ after = [Island0 EXCEPT !.individuals =
                                             SubSeq(individuals, 1, index)
                                             \o SubSeq(individuals, index + 2,
                                                       Len(individuals))]
                    ELSE is_none(obs'.ret) /\ world' = world]_vars

C20_Witness ==
    /\ obs.op = "select_and_remove_one_individual"
    /\ is_some(obs.ret)
    /\ Island0.individuals_are_sorted
    /\ len(Island0) = 1
    /\ Island0.individuals[1] # unwrap(obs.ret)
    /\ score[unwrap(obs.ret)] < score[Island0.individuals[1]]

----------------------------------------------------------------------------
(* The sorted flag and the generation boundary, checked under SpecIsland *)

IslandAfter == get_island(unwrap(world'), 0)

\* C23 as stated: the sorted flag is true iff the current generation has
\* been sorted since its last population change: sort_individuals sets it,
\* and every operation that changes the membership of the current generation
\* (advance_generation, clear, select_and_remove_one_individual) sets it to
\* false.
C23_MembershipChangeClearsSorted ==
    [][/\ (obs'.op \in {"sort_individuals", "island_run_one_generation"})
             => IslandAfter.individuals_are_sorted
       /\ (obs'.op \in {"advance_generation", "clear"})
             => ~IslandAfter.individuals_are_sorted
       /\ (obs'.op = "select_and_remove_one_individual" /\ is_some(obs'.ret))
             => ~IslandAfter.individuals_are_sorted]_vars

\* C23 as amended: the sorted flag is true iff sort_individuals has run,
\* directly or at the end of run_one_generation, since the island was
\* created and since its last advance_generation or clear: those two set
\* the flag to false, the sort sets it to true, and every other operation
\* leaves it as it is; select_and_remove_one_individual takes an individual
\* out of the current generation and leaves the flag true.
C23_SortedSinceAdvanceOrClear ==
    [][/\ (obs'.op \in {"sort_individuals", "island_run_one_generation"})
             => IslandAfter.individuals_are_sorted
       /\ (obs'.op \in {"advance_generation", "clear"})
             => ~IslandAfter.individuals_are_sorted
       /\ (obs'.op \notin {"sort_individuals", "island_run_one_generation",
                           "advance_generation", "clear"})
             => IslandAfter.individuals_are_sorted
                   = Island0.individuals_are_sorted
       /\ (obs'.op = "select_and_remove_one_individual" /\ is_some(obs'.ret))
             => /\ Island0.individuals_are_sorted
                /\ IslandAfter.individuals_are_sorted
                /\ len(IslandAfter) = len(Island0) - 1]_vars

C23_Witness ==
    /\ obs.op = "select_and_remove_one_individual"
    /\ is_some(obs.ret)
    /\ Island0.individuals_are_sorted
    /\ len(Island0) = 1
    /\ len_future_generation(Island0) = 1

\* C24: advance_generation discards the whole current generation, makes
\* the current generation the former future generation (same individuals,
\* same order), leaves the future generation empty and sets sorted to false;
\* advance_generation and clear are the only operations that replace the
\* current generation wholesale: every other operation leaves it as it was,
\* reorders it, or takes one individual out of it.
C24_AdvanceReplacesCurrentWithFuture ==
    [][/\ (obs'.op = "advance_generation")
             => /\ IslandAfter.individuals = Island0.future
                /\ IslandAfter.future = <<>>
                /\ ~IslandAfter.individuals_are_sorted
       /\ (obs'.op = "clear") => IslandAfter = Island_new
       /\ (obs'.op \in {"sort_individuals", "island_run_one_generation"})
             => SameMembers(IslandAfter.individuals, Island0.individuals)
       /\ (obs'.op = "select_and_remove_one_individual")
             => /\ len(IslandAfter) >= len(Island0) - 1
                /\ \A x \in Handles :
                      Count(IslandAfter.individuals, x)
                         <= Count(Island0.individuals, x)
       /\ (obs'.op \in {"select_one_individual", "most_fit_individual",
                        "least_fit_individual",
                        "add_individual_to_future_generation"})
             => IslandAfter.individuals = Island0.individuals
       /\ (obs'.op \notin {"advance_generation", "clear",
                           "add_individual_to_future_generation"})
             => IslandAfter.future = Island0.future]_vars

C24_Witness ==
    /\ obs.op = "advance_generation"
    /\ Island0.individuals = <<1, 0>>
    /\ score[0] < score[1]
    /\ Island0.future = <<>>
    /\ ~Island0.individuals_are_sorted

\* v is in ascending order under the comparison: no element compares
\* Greater than one behind it
Ascending(sc, v) ==
    \A i, j \in 1..Len(v) :
       i < j => engine_sort_individuals(sc, v[i], v[j]) # "Greater"

----------------------------------------------------------------------------
(* A world driven by run_generations_while alone: every world that builds,  *)
(* with elitism, every migration algorithm and both clone settings; the     *)
(* loop is followed one call at a time and may be called again once it has  *)
(* returned                                                                 *)

\* run_generations_while is called again after it has returned
WhileCallAgain ==
    /\ phase = "world"
    /\ obs.tally.pc = "returned"
    /\ obs.tally.fills < MaxRuns
    /\ obs' = Tallied(Obs("run_generations_while"),
                      [obs.tally EXCEPT !.pc = WhileEntry, !.generations = 0,
                                        !.evaluations = 0, !.running = TRUE])
    /\ UNCHANGED <<phase, engine_builder, builder, world, score, overflow_checks>>

WhileWorldBuilders ==
    {WorldBuilderOf(c[1], c[2], c[3], c[4], c[5], c[6], c[7],
                    GeneticEngineBuilder_build(MigrationEngineBuilder).engine) :
        c \in {d \in (1..MaxIslands) \X (1..MaxPerIsland) \X (0..MaxPerIsland)
                      \X (0..MaxCadence) \X (0..MaxPerIsland)
                      \X MigrationAlgorithms \X BOOLEAN :
                  /\ d[1] * d[2] <= MaxPopulation
                  /\ d[3] < d[2]
                  /\ d[5] <= d[2]}}

InitWhile ==
    /\ phase = "world"
    /\ engine_builder = MigrationEngineBuilder
    /\ builder \in WhileWorldBuilders
    /\ world = WorldBuilder_build(builder).world
    /\ score = [h \in Handles |-> h % (MaxScore + 1)]
    /\ overflow_checks = TRUE
    /\ obs = Tallied(Obs("new"), Tally0(unwrap(WorldBuilder_build(builder).world)))

NextWhile ==
    \/ WhileCall
    \/ WhileCallAgain
    \/ WhileFill
    \/ WhileRun
    \/ WhileCheck

SpecWhile == InitWhile /\ [][NextWhile]_vars

\* C28: in a run driven only by run_generations_while on a world that was
\* built, every selection made by fill_all_islands and by a migration pass
\* succeeds, for every migration algorithm and both clone settings: no fill
\* and no pass meets an unsorted or empty source, every fill handles every
\* island, and a pass over N >= 2 islands moves
\* N * number_of_individuals_migrating individuals; when a fill begins
\* every island is empty or sorted.
C28_SelectionsSucceedUnderWhile ==
    /\ phase = "world"
    /\ ~obs.panicked
    /\ (obs.op = "fill_all_islands") => Len(obs.fills) = Len(W.islands)
    /\ (obs.op = "run_one_generation" /\ obs.migrated /\ Len(W.islands) >= 2)
          => Len(obs.moves)
                = Len(W.islands) * W.number_of_individuals_migrating
    /\ (obs.tally.pc \in {"fill", "check", "returned"}
           /\ obs.op # "new" /\ obs.tally.fills > 0)
          => \A i \in 1..Len(W.islands) :
                len(W.islands[i]) = 0 \/ W.islands[i].individuals_are_sorted

C28_Witness ==
    /\ obs.op = "fill_all_islands"
    /\ obs.tally.fills = 2
    /\ Len(W.islands) = 2
    /\ W.individuals_per_island = 2
    /\ W.number_of_individuals_migrating = 1
    /\ ~W.clone_migrated_individuals
    /\ W.migration_algorithm = RandomCircular
    /\ W.generations_between_migrations = 1
    /\ obs.fills[1] = [staged |-> 1, kinds |-> <<"elite">>]
    /\ obs.fills[2] = [staged |-> 1, kinds |-> <<"elite">>]

====
